---- MODULE Spec2Model ----
(***************************************************************************)
(* The cart / inventory engine of the lesson shop front end.               *)
(*                                                                         *)
(* Two variants of the same Vue application are modelled side by side:     *)
(*   variant = "app"   src/app.js                                          *)
(*   variant = "part"  src/unnamed/part_000                                *)
(* The variant is chosen in Init and never changes.                        *)
(*                                                                         *)
(* Representation.  A lesson object is a record [id, topic, price, space]. *)
(* The cart holds references to lesson objects.  The only fields the code  *)
(* ever reads through a cart entry are _id, topic and price, which never   *)
(* change, and the only object whose space the code writes is one that is  *)
(* in this.lessons at that moment; a cart entry is therefore represented   *)
(* by the _id of the object it references.  data.searchQuery is read only  *)
(* by handleSearch, in the very event that wrote it: it is the parameter   *)
(* of HandleSearch.  data.showCart is read by no method and is left out.   *)
(*                                                                         *)
(* Environment.  The HTTP server is outside the repository.  A GET may     *)
(* answer with any space in 0..MaxSpace for a lesson (the server's own     *)
(* store, other buyers); while the application runs the answers are drawn  *)
(* from Answers, a family of stocks in which every lesson takes every      *)
(* space.  Every fetch resolves ok, resolves with a non-success status or  *)
(* rejects.  Every await is a point where other handlers may run; what     *)
(* runs between two awaits is one action.                                  *)
(*                                                                         *)
(* Rendering.  The list on screen is the computed sortedLessons, evaluated  *)
(* when the view is rendered.  src/app.js sorts this.lessons in place; with *)
(* the sort control untouched it compares by 'subject', a field the lesson *)
(* objects do not carry, and the sort then moves nothing.  The sort control *)
(* is operated in SpecSort only.                                           *)
(*                                                                         *)
(* History.  synced, latest and ev are history variables: they record what *)
(* was delivered, which request was issued last and which step ran last,   *)
(* and no action reads them.  watch, fixed by each specification's Init,   *)
(* names what is recorded.                                                 *)
(***************************************************************************)
EXTENDS Integers, Sequences, FiniteSets, TLC

\* ---------------------------------------------------------------- bounds
NumItems == 2
MaxSpace == 2
MaxCart == 2
MaxGets == 2
MaxSubs == 2

VARIABLES
    variant,        \* which source file runs
    lessons,        \* data.lessons: sequence of lesson objects
    cart,           \* data.cart: sequence of lesson ids (see Representation)
    checkout,       \* data.checkout: [name, phone], strings as character sequences
    sortBy,         \* data.sortBy: the field sortedLessons compares
    sortOrder,      \* data.sortOrder: "asc" or "desc"
    orderMessage,   \* data.orderMessage: "null" or the alert type
    gets,           \* GET requests in flight, in issue order
    subs,           \* the submitOrder activations, by slot
    puts,           \* PUT requests in flight
    timers,         \* pending setTimeout callbacks (part_000 only)
    synced,         \* history: space the last successful fetch delivered, per id
    latest,         \* history: the catalog request issued last, and its answer
    ev,             \* history: the handler step that ran last
    watch           \* which history is recorded

vars == <<variant, lessons, cart, checkout, sortBy, sortOrder, orderMessage,
          gets, subs, puts, timers, synced, latest, ev, watch>>

\* ------------------------------------------------------------ environment
\* A removal may give back more than was ever fetched; the model stops there.
SpaceCap == MaxSpace + 1
Items == 1..NumItems
Slots == 1..MaxSubs
Variants == {"app", "part"}

TopicOf(id) == IF id = 1 THEN "art" ELSE "Math"
PriceOf(id) == 10 * id

\* The search queries the user types; "" is the cleared search box.
Queries == {"", "art"}

\* GET /search?q=...: the server's filter, by topic.
SearchHits(q) == {id \in Items : TopicOf(id) = q}

LessonObject(id, sp) == [id |-> id, topic |-> TopicOf(id), price |-> PriceOf(id), space |-> sp]

\* What the server may hold: a space for every lesson.
Stocks == [Items -> 0..MaxSpace]

\* What the server answers while the application runs.
Answers == {[id \in Items |-> (id + n) % (MaxSpace + 1)] : n \in 0..MaxSpace}
NoStock == [id \in Items |-> 0]

\* GET /lessons: the JSON list the server answers with.
AllLessons(srv) == [k \in 1..NumItems |-> LessonObject(k, srv[k])]

\* The JSON list answered to a request.
Response(req, srv) ==
    IF req.url = "lessons" THEN AllLessons(srv)
    ELSE SelectSeq(AllLessons(srv), LAMBDA l : l.id \in SearchHits(req.q))

\* History: the space a delivered list carries for each id in it.
SyncedBy(list) ==
    [id \in {list[k].id : k \in 1..Len(list)} |->
        (CHOOSE l \in {list[k] : k \in 1..Len(list)} : l.id = id).space]

\* ---------------------------------------------------------------- sorting
\* The fields the sort control offers.  No lesson object carries "subject", the
\* default of src/app.js: a[this.sortBy] is then undefined.
Fields == {"subject", "topic", "price", "space"}
Orders == {"asc", "desc"}

\* data.sortBy as data() sets it.
DefaultSortBy == IF variant = "app" THEN "subject" ELSE "topic"

\* String.prototype.toLowerCase, on the topics in use.
ToLowerCase(t) == IF t = "Math" THEN "math" ELSE t

\* The order of > and < on strings (by code unit), as a rank of the strings in
\* use: "Math" < "art" < "math".
StringRank(t) == IF t = "Math" THEN 1 ELSE IF t = "art" THEN 2 ELSE 3

\* valA / valB: the value compared, strings lower-cased; undefined for a field
\* the object lacks, and every comparison with undefined is false.
HasField(f) == f \in {"topic", "price", "space"}
SortKey(l, f) ==
    IF f = "topic" THEN StringRank(ToLowerCase(l.topic))
    ELSE IF f = "price" THEN l.price
    ELSE l.space

\* The comparator handed to sort().
Compare(a, b, f, d) ==
    LET comparison == IF ~HasField(f) THEN 0
                      ELSE IF SortKey(a, f) > SortKey(b, f) THEN 1
                      ELSE IF SortKey(a, f) < SortKey(b, f) THEN -1
                      ELSE 0
    IN  IF d = "asc" THEN comparison ELSE comparison * (-1)

\* Array.prototype.sort is stable (ECMAScript 2019): elements that compare
\* equal keep their order.  x goes behind every element not greater than it.
InsertSorted(x, sorted, f, d) ==
    LET keep == {k \in 1..Len(sorted) : Compare(sorted[k], x, f, d) <= 0}
        n == IF keep = {} THEN 0 ELSE CHOOSE k \in keep : \A j \in keep : j <= k
    IN  SubSeq(sorted, 1, n) \o <<x>> \o SubSeq(sorted, n + 1, Len(sorted))

RECURSIVE SortBy(_, _, _)
SortBy(ls, f, d) ==
    IF ls = <<>> THEN <<>>
    ELSE InsertSorted(ls[Len(ls)], SortBy(SubSeq(ls, 1, Len(ls) - 1), f, d), f, d)

\* computed sortedLessons: the value it returns.
sortedLessons == SortBy(lessons, sortBy, sortOrder)

\* What evaluating sortedLessons leaves in this.lessons: src/app.js sorts the
\* array itself, src/unnamed/part_000 sorts a copy.
LessonsAfterSort(f, d) == IF variant = "app" THEN SortBy(lessons, f, d) ELSE lessons

\* ------------------------------------------------------------- validators
Letters == {"a", "b", "c", "d", "e", "f", "g", "h", "i", "j", "k", "l", "m",
            "n", "o", "p", "q", "r", "s", "t", "u", "v", "w", "x", "y", "z",
            "A", "B", "C", "D", "E", "F", "G", "H", "I", "J", "K", "L", "M",
            "N", "O", "P", "Q", "R", "S", "T", "U", "V", "W", "X", "Y", "Z"}
Whitespace == {" ", "\t", "\n", "\r"}
Digits == {"0", "1", "2", "3", "4", "5", "6", "7", "8", "9"}

\* /^[a-zA-Z\s]+$/
isNameValid == Len(checkout.name) > 0
               /\ \A k \in 1..Len(checkout.name) : checkout.name[k] \in Letters \cup Whitespace
\* /^\d+$/
isPhoneValid == Len(checkout.phone) > 0
                /\ \A k \in 1..Len(checkout.phone) : checkout.phone[k] \in Digits

isCheckoutEnabled == isNameValid /\ isPhoneValid /\ Len(cart) > 0

\* What the user types into the checkout form.
Names == {<<"J", "o">>}
Phones == {<<"0", "7">>}
EmptyForm == [name |-> <<>>, phone |-> <<>>]

\* ---------------------------------------------------------------- helpers
\* this.cart.filter(c => c._id === id).length
Count(seq, id) == Cardinality({k \in 1..Len(seq) : seq[k] = id})

\* this.lessons.findIndex(l => l._id === id); 0 stands for -1
FindIndex(ls, id) ==
    IF \E k \in 1..Len(ls) : ls[k].id = id
    THEN CHOOSE k \in 1..Len(ls) : ls[k].id = id /\ \A j \in 1..(k - 1) : ls[j].id # id
    ELSE 0

\* seq.splice(p, 1)
Splice(seq, p) == SubSeq(seq, 1, p - 1) \o SubSeq(seq, p + 1, Len(seq))

CartIds == {cart[k] : k \in 1..Len(cart)}

Busy == Cardinality({s \in Slots : subs[s].pc # "idle"})
SlotFree(s) == subs[s].pc = "idle" /\ ~ \E m \in puts : m.sub = s
NoPayload == [name |-> <<>>, phone |-> <<>>, lessons |-> <<>>]
IdleSub == [pc |-> "idle", payload |-> NoPayload]

\* History of the request issued last: not yet answered, or answered with list.
NoRequest == [req |-> [url |-> "", q |-> ""], done |-> "", list |-> <<>>]
Asked(req) == [req |-> req, done |-> "no", list |-> <<>>]
\* What issuing the requests that take gets to gets' records.
Ask(newgets) ==
    IF "latest" \in watch /\ Len(newgets) > Len(gets)
    THEN Asked(newgets[Len(newgets)])
    ELSE latest
\* What the answer to the request at position i records.
Answer(i, out, list) ==
    IF "latest" \in watch /\ i = Len(gets) /\ latest.done = "no"
    THEN [latest EXCEPT !.done = out, !.list = list]
    ELSE latest

Event(op, out, res) == [op |-> op, out |-> out, res |-> res]
Quiet == Event("", "", "")
\* The step is recorded in ev when its operation is watched.
Observe(op, out, res) ==
    /\ ev' = IF op \in watch THEN Event(op, out, res) ELSE Quiet
    /\ UNCHANGED <<variant, watch, sortBy, sortOrder>>

\* ------------------------------------------------------------------- Init
\* data() and mounted(): the defaults, and the first fetchLessons() in flight.
Init ==
    /\ variant \in Variants
    /\ lessons = <<>>
    /\ cart = <<>>
    /\ checkout = EmptyForm
    /\ sortBy = DefaultSortBy
    /\ sortOrder = "asc"
    /\ orderMessage = "null"
    /\ gets = <<[url |-> "lessons", q |-> ""]>>
    /\ subs = [s \in Slots |-> IdleSub]
    /\ puts = {}
    /\ timers = 0
    /\ synced = SyncedBy(<<>>)
    /\ latest = NoRequest
    /\ ev = Quiet
    /\ watch = {"post", "put"}

\* ------------------------------------------------------------ the catalog
\* fetchLessons(): the GET is issued.
IssueFetchLessons(q) == Append(q, [url |-> "lessons", q |-> ""])

\* if (!response.ok) throw ...; a rejected fetch throws at the await.
\* (ResponseOk_NoCheck: the fault of a missing status check.)
ResponseOk_NoCheck(out) == out # "reject"
ResponseOk(out) == out = "ok"

\* The response to a GET arrives: this.lessons = await response.json(), or the
\* catch branch, which only logs.  (fetchLessons and handleSearch alike.)
GetDone(i, out, srv) ==
    /\ i \in 1..Len(gets)
    /\ gets' = Splice(gets, i)
    /\ IF ResponseOk(out)
       THEN /\ lessons' = Response(gets[i], srv)
            /\ synced' = IF "sync" \in watch THEN SyncedBy(Response(gets[i], srv))
                                              ELSE synced
            /\ latest' = Answer(i, out, Response(gets[i], srv))
       ELSE /\ UNCHANGED <<lessons, synced>>
            /\ latest' = Answer(i, out, <<>>)
    /\ Observe(gets[i].url, out, "")
    /\ UNCHANGED <<cart, checkout, orderMessage, subs, puts, timers>>

\* The user edits the search box (v-model) and @input runs handleSearch().
HandleSearch(q) ==
    /\ Len(gets) + (IF variant = "app" THEN Busy ELSE 0) < MaxGets
    /\ orderMessage' = "null"
    /\ gets' = IF q # ""
               THEN Append(gets, [url |-> "search", q |-> q])
               ELSE IssueFetchLessons(gets)
    /\ latest' = Ask(gets')
    /\ Observe("handleSearch", q, "")
    /\ UNCHANGED <<lessons, cart, checkout, subs, puts, timers, synced>>

\* --------------------------------------------------------------- the cart
\* if (lesson.space > 0)   (CanAdd_NoGuard: the fault of a missing guard)
CanAdd_NoGuard(lesson) == TRUE
CanAdd(lesson) == lesson.space > 0

\* lesson.space -= 1   /   lesson.space--   (Reserve_NoDecrement: the fault of
\* a forgotten decrement)
Reserve_NoDecrement(ls, i) == ls
Reserve(ls, i) == [ls EXCEPT ![i].space = @ - 1]

\* addToCart(lesson), lesson being this.lessons[i]
AddToCart(i) ==
    /\ i \in 1..Len(lessons)
    /\ Len(cart) < MaxCart
    /\ IF CanAdd(lessons[i])
       THEN /\ cart' = Append(cart, lessons[i].id)
            /\ lessons' = Reserve(lessons, i)
            /\ Observe("addToCart", "added", "")
       ELSE /\ UNCHANGED <<cart, lessons>>
            /\ Observe("addToCart", "blocked", "")
    /\ UNCHANGED <<checkout, orderMessage, gets, subs, puts, timers, synced, latest>>

\* The lookup by _id and the space given back (findIndex / find, then += 1).
\* (Restore_First: the fault of giving the space to the first item.)
Restore_First(ls, id) ==
    IF Len(ls) > 0 THEN [ls EXCEPT ![1].space = @ + 1] ELSE ls
Restore(ls, id) ==
    IF FindIndex(ls, id) # 0
    THEN [ls EXCEPT ![FindIndex(ls, id)].space = @ + 1]
    ELSE ls

\* removeFromCart(item, index), item being this.cart[p]
RemoveFromCart(p) ==
    /\ p \in 1..Len(cart)
    /\ FindIndex(lessons, cart[p]) # 0 => lessons[FindIndex(lessons, cart[p])].space < SpaceCap
    /\ lessons' = Restore(lessons, cart[p])
    /\ cart' = Splice(cart, p)
    /\ orderMessage' = IF variant = "app" /\ Len(cart) = 1 THEN "null" ELSE orderMessage
    /\ Observe("removeFromCart",
               IF FindIndex(lessons, cart[p]) # 0 THEN "restored" ELSE "skipped", "")
    /\ UNCHANGED <<checkout, gets, subs, puts, timers, synced, latest>>

\* The user picks a sort field and direction (v-model); the list is rendered
\* again, which evaluates sortedLessons.
SelectSort(f, d) ==
    /\ <<f, d>> # <<sortBy, sortOrder>>
    /\ sortBy' = f
    /\ sortOrder' = d
    /\ lessons' = LessonsAfterSort(f, d)
    /\ ev' = IF "sort" \in watch THEN Event("sort", f, d) ELSE Quiet
    /\ UNCHANGED <<variant, watch, cart, checkout, orderMessage, gets, subs, puts,
                   timers, synced, latest>>

\* The user fills in the checkout form (v-model).
EnterCheckout(n, p) ==
    /\ checkout # [name |-> n, phone |-> p]
    /\ checkout' = [name |-> n, phone |-> p]
    /\ Observe("input", "", "")
    /\ UNCHANGED <<lessons, cart, orderMessage, gets, subs, puts, timers, synced, latest>>

\* ---------------------------------------------------------- submitOrder
\* lessons: this.cart.map(item => ({id, topic, price, quantity}))
OrderLines ==
    [k \in 1..Len(cart) |->
        [id |-> cart[k], topic |-> TopicOf(cart[k]), price |-> PriceOf(cart[k]),
         quantity |-> IF variant = "app" THEN Count(cart, cart[k]) ELSE 1]]

\* submitOrder() up to its first await: the payload is built, the message set
\* and the POST issued.  The button is bound to isCheckoutEnabled.
SubmitOrder(s) ==
    /\ isCheckoutEnabled
    /\ SlotFree(s) /\ \A t \in 1..(s - 1) : ~SlotFree(t)
    /\ Busy + timers < MaxSubs
    /\ variant = "app" => Len(gets) + Busy < MaxGets
    /\ subs' = [subs EXCEPT ![s] =
                   [pc |-> "post",
                    payload |-> [name |-> checkout.name, phone |-> checkout.phone,
                                 lessons |-> OrderLines]]]
    /\ orderMessage' = "alert-warning"
    /\ Observe("submitOrder", "", "")
    /\ UNCHANGED <<lessons, cart, checkout, gets, puts, timers, synced, latest>>

\* The outcomes of a fetch(): it resolves with response.ok, resolves with a
\* non-success status, or rejects (transport error).
Outcomes == {"ok", "status", "reject"}

\* if (!postResponse.ok) throw ...; a rejected fetch throws at the await.
\* (PostSucceeded_NoOkCheck: the fault of a missing status check.)
PostSucceeded_NoOkCheck(out) == out # "reject"
PostSucceeded(out) == out = "ok"

\* The PUT requests phase 2 issues for submission s.
UpdateCalls(s) ==
    IF variant = "app"
    THEN {[sub |-> s, id |-> lessons[k].id,
           space |-> lessons[k].space - Count(cart, lessons[k].id)] :
             k \in {j \in 1..Len(lessons) : Count(cart, lessons[j].id) > 0}}
    ELSE {[sub |-> s, id |-> id, space |-> lessons[FindIndex(lessons, id)].space] :
             id \in {c \in CartIds : FindIndex(lessons, c) # 0}}

\* Step 3 of submitOrder, by variable.  (FinalCart_Kept: the fault of a cart
\* that is not cleared.)
FinalCart_Kept == cart
FinalCart == <<>>
FinalCheckout == EmptyForm
FinalGets == IF variant = "app" THEN IssueFetchLessons(gets) ELSE gets
FinalTimers == IF variant = "part" THEN timers + 1 ELSE timers

Finalize(s) ==
    /\ cart' = FinalCart
    /\ checkout' = FinalCheckout
    /\ gets' = FinalGets
    /\ timers' = FinalTimers
    /\ orderMessage' = "alert-success"
    /\ subs' = [subs EXCEPT ![s] = IdleSub]

\* The catch branch of submitOrder.  (CatchSubmit_LogsOnly: the fault of a
\* catch that only logs, as the one of fetchLessons does.)
CatchSubmit_LogsOnly(s) ==
    /\ subs' = [subs EXCEPT ![s] = IdleSub]
    /\ UNCHANGED <<cart, checkout, gets, timers, orderMessage>>
CatchSubmit(s) ==
    /\ orderMessage' = "alert-danger"
    /\ subs' = [subs EXCEPT ![s] = IdleSub]
    /\ UNCHANGED <<cart, checkout, gets, timers>>

\* The POST completes.  With no PUT to wait for, Promise.all resolves in the same
\* turn of the event loop and step 3 follows at once.
PostDone(s, out) ==
    /\ subs[s].pc = "post"
    /\ IF ~PostSucceeded(out)
       THEN /\ CatchSubmit(s)
            /\ puts' = puts
            /\ Observe("post", out, "failed")
       ELSE /\ puts' = puts \cup UpdateCalls(s)
            /\ IF UpdateCalls(s) = {}
               THEN /\ Finalize(s)
                    /\ Observe("post", out, "committed")
               ELSE /\ subs' = [subs EXCEPT ![s].pc = "puts"]
                    /\ Observe("post", out, "updating")
                    /\ UNCHANGED <<cart, checkout, gets, timers, orderMessage>>
    /\ latest' = Ask(gets')
    /\ UNCHANGED <<lessons, synced>>

\* Promise.all rejects as soon as one of its promises rejects; a response with a
\* non-success status resolves its promise like any other.
\* (PromiseAllRejects_Never: the fault of waiting with Promise.allSettled.)
PromiseAllRejects_Never(out) == FALSE
PromiseAllRejects(out) == out = "reject"

\* A PUT completes.
PutDone(m, out) ==
    /\ m \in puts
    /\ puts' = puts \ {m}
    /\ IF subs[m.sub].pc # "puts"
       THEN /\ Observe("put", out, "ignored")
            /\ UNCHANGED <<cart, checkout, gets, timers, orderMessage, subs>>
       ELSE IF PromiseAllRejects(out)
       THEN /\ CatchSubmit(m.sub)
            /\ Observe("put", out, "failed")
       ELSE IF \E n \in puts \ {m} : n.sub = m.sub
       THEN /\ Observe("put", out, "updating")
            /\ UNCHANGED <<cart, checkout, gets, timers, orderMessage, subs>>
       ELSE /\ Finalize(m.sub)
            /\ Observe("put", out, "committed")
    /\ latest' = Ask(gets')
    /\ UNCHANGED <<lessons, synced>>

\* setTimeout(() => { this.orderMessage = null; }, 3000)
TimerFires ==
    /\ timers > 0
    /\ timers' = timers - 1
    /\ orderMessage' = "null"
    /\ Observe("timeout", "", "")
    /\ UNCHANGED <<lessons, cart, checkout, gets, subs, puts, synced, latest>>

\* ---------------------------------------------------------- specifications
\* The user of Spec presses the button again only when the last submission is
\* over: it has ended, its PUTs are answered and its message is cleared.
Patient == Busy = 0 /\ puts = {} /\ timers = 0

Next ==
    \/ \E i \in 1..MaxGets, srv \in Answers : GetDone(i, "ok", srv)
    \/ \E i \in 1..MaxGets, out \in Outcomes \ {"ok"} : GetDone(i, out, NoStock)
    \/ \E q \in Queries : HandleSearch(q)
    \/ \E i \in Items : AddToCart(i)
    \/ \E p \in 1..MaxCart : RemoveFromCart(p)
    \/ \E n \in Names, p \in Phones : EnterCheckout(n, p)
    \/ \E s \in Slots : Patient /\ SubmitOrder(s)
    \/ \E s \in Slots, out \in Outcomes : PostDone(s, out)
    \/ \E m \in puts, out \in Outcomes : PutDone(m, out)
    \/ TimerFires

Spec == Init /\ [][Next]_vars

\* The cart manager alone: a freshly loaded catalog, an empty cart, and nothing
\* but addToCart and removeFromCart.
InitCart ==
    /\ variant \in Variants
    /\ lessons \in {AllLessons(srv) : srv \in Stocks}
    /\ cart = <<>>
    /\ checkout = EmptyForm
    /\ sortBy = DefaultSortBy
    /\ sortOrder = "asc"
    /\ orderMessage = "null"
    /\ gets = <<>>
    /\ subs = [s \in Slots |-> IdleSub]
    /\ puts = {}
    /\ timers = 0
    /\ synced = SyncedBy(lessons)
    /\ latest = NoRequest
    /\ ev = Quiet
    /\ watch = {"sync", "addToCart", "removeFromCart"}

NextCart ==
    \/ \E i \in Items : AddToCart(i)
    \/ \E p \in 1..MaxCart : RemoveFromCart(p)

SpecCart == InitCart /\ [][NextCart]_vars

\* The catalog and the cart: fetches and searches replace the list while the
\* cart is in use; nothing is submitted.
InitCatalog ==
    /\ variant \in Variants
    /\ lessons = <<>>
    /\ cart = <<>>
    /\ checkout = EmptyForm
    /\ sortBy = DefaultSortBy
    /\ sortOrder = "asc"
    /\ orderMessage = "null"
    /\ gets = <<[url |-> "lessons", q |-> ""]>>
    /\ subs = [s \in Slots |-> IdleSub]
    /\ puts = {}
    /\ timers = 0
    /\ synced = SyncedBy(<<>>)
    /\ latest = NoRequest
    /\ ev = Quiet
    /\ watch = {"sync", "addToCart", "removeFromCart"}

NextCatalog ==
    \/ \E i \in 1..MaxGets, srv \in Answers : GetDone(i, "ok", srv)
    \/ \E i \in 1..MaxGets, out \in Outcomes \ {"ok"} : GetDone(i, out, NoStock)
    \/ \E q \in Queries : HandleSearch(q)
    \/ \E i \in Items : AddToCart(i)
    \/ \E p \in 1..MaxCart : RemoveFromCart(p)

SpecCatalog == InitCatalog /\ [][NextCatalog]_vars

\* The same program, the history being how each request was answered.
InitFetch ==
    /\ variant \in Variants
    /\ lessons = <<>>
    /\ cart = <<>>
    /\ checkout = EmptyForm
    /\ sortBy = DefaultSortBy
    /\ sortOrder = "asc"
    /\ orderMessage = "null"
    /\ gets = <<[url |-> "lessons", q |-> ""]>>
    /\ subs = [s \in Slots |-> IdleSub]
    /\ puts = {}
    /\ timers = 0
    /\ synced = SyncedBy(<<>>)
    /\ latest = NoRequest
    /\ ev = Quiet
    /\ watch = {"lessons", "search"}

SpecFetch == InitFetch /\ [][NextCatalog]_vars

\* The same program, the history being which request was issued last and what
\* it was answered.
InitRace ==
    /\ variant \in Variants
    /\ lessons = <<>>
    /\ cart = <<>>
    /\ checkout = EmptyForm
    /\ sortBy = DefaultSortBy
    /\ sortOrder = "asc"
    /\ orderMessage = "null"
    /\ gets = <<[url |-> "lessons", q |-> ""]>>
    /\ subs = [s \in Slots |-> IdleSub]
    /\ puts = {}
    /\ timers = 0
    /\ synced = SyncedBy(<<>>)
    /\ latest = Asked([url |-> "lessons", q |-> ""])
    /\ ev = Quiet
    /\ watch = {"latest"}

SpecRace == InitRace /\ [][NextCatalog]_vars

\* The hurried user: the catalog is loaded, and the button is pressed again
\* whenever the form is valid, whatever earlier submissions are doing.  Nothing
\* in submitOrder or isCheckoutEnabled looks at the submission state.  The
\* search box is left alone and the refetches of src/app.js are answered.
InitRush ==
    /\ variant \in Variants
    /\ lessons \in {AllLessons(srv) : srv \in Answers}
    /\ cart = <<>>
    /\ checkout = EmptyForm
    /\ sortBy = DefaultSortBy
    /\ sortOrder = "asc"
    /\ orderMessage = "null"
    /\ gets = <<>>
    /\ subs = [s \in Slots |-> IdleSub]
    /\ puts = {}
    /\ timers = 0
    /\ synced = SyncedBy(<<>>)
    /\ latest = NoRequest
    /\ ev = Quiet
    /\ watch = {}

NextRush ==
    \/ \E i \in 1..MaxGets, srv \in Answers : GetDone(i, "ok", srv)
    \/ \E i \in Items : AddToCart(i)
    \/ \E p \in 1..MaxCart : RemoveFromCart(p)
    \/ \E n \in Names, p \in Phones : EnterCheckout(n, p)
    \/ \E s \in Slots : SubmitOrder(s)
    \/ \E s \in Slots, out \in Outcomes : PostDone(s, out)
    \/ \E m \in puts, out \in Outcomes : PutDone(m, out)
    \/ TimerFires

SpecRush == InitRush /\ [][NextRush]_vars

\* The sort control alone, on a catalog the server delivered in any order.
ServedLists ==
    {[k \in 1..NumItems |-> LessonObject(p[k], srv[p[k]])] :
        p \in {q \in [Items -> Items] : \A a, b \in Items : q[a] = q[b] => a = b},
        srv \in Stocks}

InitSort ==
    /\ variant \in Variants
    /\ lessons \in ServedLists
    /\ cart = <<>>
    /\ checkout = EmptyForm
    /\ sortBy = DefaultSortBy
    /\ sortOrder = "asc"
    /\ orderMessage = "null"
    /\ gets = <<>>
    /\ subs = [s \in Slots |-> IdleSub]
    /\ puts = {}
    /\ timers = 0
    /\ synced = SyncedBy(<<>>)
    /\ latest = NoRequest
    /\ ev = Quiet
    /\ watch = {}

NextSort == \E f \in Fields, d \in Orders : SelectSort(f, d)

SpecSort == InitSort /\ [][NextSort]_vars

\* Every network call of a submission completes: the POST of each activation
\* and each PUT it waits for are answered, one way or another, in the end.
Completion ==
    /\ \A s \in Slots : WF_vars(\E out \in Outcomes : PostDone(s, out))
    /\ \A s \in Slots : \A id \in Items :
          WF_vars(\E m \in puts, out \in Outcomes :
                     m.sub = s /\ m.id = id /\ PutDone(m, out))

\* The loaded catalog, the cart and the submissions of the patient user, every
\* network call of a submission being answered.
NextLive ==
    \/ \E i \in 1..MaxGets, srv \in Answers : GetDone(i, "ok", srv)
    \/ \E i \in Items : AddToCart(i)
    \/ \E p \in 1..MaxCart : RemoveFromCart(p)
    \/ \E n \in Names, p \in Phones : EnterCheckout(n, p)
    \/ \E s \in Slots : Patient /\ SubmitOrder(s)
    \/ \E s \in Slots, out \in Outcomes : PostDone(s, out)
    \/ \E m \in puts, out \in Outcomes : PutDone(m, out)
    \/ TimerFires

SpecLive == InitRush /\ [][NextLive]_vars /\ Completion

\* ------------------------------------------------------------- properties
\* I1 for the items of the list: space plus the cart entries of that id is the
\* space the last fetch delivered.
Conserved(k) ==
    lessons[k].space + Count(cart, lessons[k].id) = synced[lessons[k].id]

\* C1 (SpecCart): from a freshly loaded catalog and an empty cart, after every
\* addToCart and removeFromCart, every item's space plus the number of cart
\* entries with its id is the item's space at load time, in both variants.
C1_Conservation == \A k \in 1..Len(lessons) : Conserved(k)

\* An entry was added, another removed, and one is still in the cart.
C1_Witness ==
    /\ ev = Event("removeFromCart", "restored", "")
    /\ \E k \in 1..Len(lessons) : Count(cart, lessons[k].id) > 0

\* C7 (SpecCart): addToCart on an item whose space is 0 changes neither the cart
\* nor any item's space, and no item's space is ever negative.
C7_BlockedAdd ==
    /\ [][\A i \in Items :
            (i <= Len(lessons) /\ lessons[i].space = 0 /\ AddToCart(i))
                => (cart' = cart /\ lessons' = lessons)]_vars
    /\ [](\A k \in 1..Len(lessons) : lessons[k].space >= 0)

\* A blocked add has just run on an item filled up by earlier adds.
C7_Witness ==
    /\ ev = Event("addToCart", "blocked", "")
    /\ cart # <<>>
    /\ \E k \in 1..Len(lessons) : lessons[k].space = 0 /\ Count(cart, lessons[k].id) > 0

\* C2 (Spec): when the POST of submitOrder fails (rejected, or answered with a
\* non-success status), the step that handles the failure leaves the cart and
\* every item's space as they are, sets the failure message and issues no PUT;
\* the submission is over, so none follows.
C2_PostFailure ==
    [][(ev'.op = "post" /\ ev'.out # "ok")
          => /\ cart' = cart
             /\ lessons' = lessons
             /\ orderMessage' = "alert-danger"
             /\ puts' = puts
             /\ \E s \in Slots : subs[s].pc = "post" /\ subs'[s].pc = "idle"]_vars

\* The POST was answered with a non-success status while the cart held entries.
C2_Witness ==
    /\ ev.op = "post" /\ ev.out = "status"
    /\ cart # <<>>
    /\ orderMessage = "alert-danger"
    /\ puts = {}

\* The PUTs a step has just issued.
Issued == puts' \ puts

\* C3 (Spec): in src/app.js every PUT issued in phase 2 carries the space the
\* item has locally at that moment (already decremented by addToCart).
C3_PutCarriesLocalSpace ==
    [][(variant = "app" /\ ev'.op = "post")
          => \A m \in Issued : \A k \in 1..Len(lessons) :
                 lessons[k].id = m.id => m.space = lessons[k].space]_vars

\* The lines of an order payload aggregate the cart c: one line for each id in
\* c, carrying the number of entries of that id.
Aggregated(lines, c) ==
    /\ \A k \in 1..Len(lines) : Count(c, lines[k].id) > 0
    /\ \A id \in {c[k] : k \in 1..Len(c)} :
          /\ Cardinality({k \in 1..Len(lines) : lines[k].id = id}) = 1
          /\ \A k \in 1..Len(lines) : lines[k].id = id => lines[k].quantity = Count(c, id)

\* C4 (Spec): the lessons array POSTed by submitOrder holds exactly one line
\* for each distinct item id in the cart, with the number of cart entries of
\* that id as its quantity.
C4_QuantityAggregation ==
    [][\A s \in Slots :
          (subs[s].pc = "idle" /\ subs'[s].pc = "post")
              => Aggregated(subs'[s].payload.lessons, cart)]_vars

\* C5 as claimed (Spec): once the POST has succeeded the submission always
\* ends Committed, cart cleared and success message set, whatever the PUTs do.
C5_AlwaysCommitted ==
    [][\A s \in Slots :
          (subs[s].pc = "puts" /\ subs'[s].pc = "idle")
              => (orderMessage' = "alert-success" /\ cart' = <<>>)]_vars

\* C5 as amended (Spec): a PUT answered with any status, success or not, never
\* fails the submission, which commits (cart cleared, success message) when its
\* last PUT is answered; a PUT rejected with a transport error ends the
\* submission Failed at once (failure message, cart and form kept).
C5_StatusMasked ==
    [][\A m \in puts :
          (m \notin puts' /\ subs[m.sub].pc = "puts")
              => IF ev'.out = "reject"
                 THEN /\ subs'[m.sub].pc = "idle"
                      /\ orderMessage' = "alert-danger"
                      /\ cart' = cart /\ checkout' = checkout
                 ELSE IF \E n \in puts' : n.sub = m.sub
                 THEN /\ subs'[m.sub].pc = "puts"
                      /\ orderMessage' = orderMessage
                      /\ cart' = cart /\ checkout' = checkout
                 ELSE /\ subs'[m.sub].pc = "idle"
                      /\ orderMessage' = "alert-success"
                      /\ cart' = <<>>]_vars

\* The last PUT was answered with a non-success status and the order committed.
C5_Witness ==
    /\ ev = Event("put", "status", "committed")
    /\ orderMessage = "alert-success"
    /\ cart = <<>>

\* C6 (Spec): when the POST succeeds, a PUT is issued for every distinct item
\* id in the cart, also when a search or reload has replaced the catalog.
C6_EveryCartIdPut ==
    [][(ev'.op = "post" /\ ev'.out = "ok")
          => {m.id : m \in Issued} = CartIds]_vars

\* C8 (Spec): the step that sets the success message leaves the cart empty and
\* the form cleared; the step that sets the failure message keeps the cart.
C8_Finalize ==
    [][/\ (orderMessage' = "alert-success" /\ orderMessage # "alert-success")
             => (cart' = <<>> /\ checkout' = EmptyForm)
       /\ (orderMessage' = "alert-danger" /\ orderMessage # "alert-danger")
             => cart' = cart]_vars

\* A submission has just committed after its PUTs were answered.
C8_Witness ==
    /\ ev.op = "put" /\ ev.res = "committed"
    /\ orderMessage = "alert-success"
    /\ cart = <<>> /\ checkout = EmptyForm

\* C9 (SpecCatalog): I1 in every reachable state, also after a fetch replaced
\* the catalog while the cart held entries.
C9_ConservationAlways == \A k \in DOMAIN lessons : Conserved(k)

C11_FetchFailure ==
    [][\A i \in 1..MaxGets : \A out \in Outcomes \ {"ok"} :
          GetDone(i, out, NoStock)
              => /\ lessons' = lessons
                 /\ cart' = cart
                 /\ orderMessage' = orderMessage]_vars

\* A search was answered with a non-success status while the catalog was
\* loaded and the cart held an entry.
C11_Witness ==
    /\ ev = Event("search", "status", "")
    /\ lessons # <<>>
    /\ cart # <<>>

\* C12 (Spec): every step in which fetchLessons or handleSearch is invoked (a
\* catalog GET is issued) ends with the order message cleared, the fetchLessons
\* called by the finalize step of src/app.js included.
C12_FetchClearsMessage ==
    [][Len(gets') > Len(gets) => orderMessage' = "null"]_vars

\* C13 (SpecRush): in src/unnamed/part_000 a failure message, once no
\* submission is in flight any more, stays until the user searches or submits
\* again, and the timer started by an earlier successful submission never
\* clears the failure message or the 'Submitting order...' message of a later
\* one.
C13_FailurePersists ==
    [][variant = "part"
          => /\ (Busy = 0 /\ orderMessage = "alert-danger"
                          /\ orderMessage' # "alert-danger")
                   => \/ \E q \in Queries : HandleSearch(q)
                      \/ \E s \in Slots : SubmitOrder(s)
             /\ TimerFires
                   => orderMessage \notin {"alert-danger", "alert-warning"}]_vars

\* C17 (SpecRush): while a submitOrder is in Submitting (its POST or its PUTs
\* in flight) no second submitOrder starts, so no two POSTs in flight carry the
\* same cart entries.
C17_NoOverlap ==
    [][\A s \in Slots : SubmitOrder(s) => Busy = 0]_vars

\* The item ids of the payload submission s POSTed, and its lines for one id.
PayloadIds(s) ==
    {subs[s].payload.lessons[k].id : k \in 1..Len(subs[s].payload.lessons)}
PayloadLines(s, id) ==
    Cardinality({k \in 1..Len(subs[s].payload.lessons) :
                    subs[s].payload.lessons[k].id = id})

\* C18 (Spec): with addToCart and removeFromCart running while the POST is in
\* flight, the item ids that receive a PUT are the item ids of the POSTed
\* payload, and every cart entry the finalize step removes was in that payload.
C18_OrderCartConsistency ==
    [][\A s \in Slots :
          /\ PostDone(s, "ok") => {m.id : m \in Issued} = PayloadIds(s)
          /\ (subs[s].pc # "idle" /\ subs'[s].pc = "idle"
                                  /\ orderMessage' = "alert-success")
                 => \A id \in Items : Count(cart, id) <= PayloadLines(s, id)]_vars

\* C19 (SpecRace): when the last of several catalog requests in flight is
\* answered, the catalog list is the answer to the request issued last,
\* whatever the order in which the answers arrived.
C19_LatestWins ==
    [][(gets # <<>> /\ gets' = <<>> /\ latest'.done = "ok")
          => lessons' = latest'.list]_vars

\* C14 (SpecLive): provided every network call it issues completes, every
\* submitOrder that enters Submitting ends, with the message of Committed or
\* that of Failed.
C14_Progress ==
    \A s \in Slots :
        (subs[s].pc # "idle")
            ~> (subs[s].pc = "idle"
                   /\ orderMessage \in {"alert-success", "alert-danger"})

\* A submission has ended Failed on a rejected PUT while another of its PUTs
\* is still unanswered.
C14_Witness ==
    /\ orderMessage = "alert-danger"
    /\ Busy = 0
    /\ puts # {}

\* C15 (SpecSort): evaluating sortedLessons, for any field and direction,
\* leaves the order and the contents of this.lessons as they were, in either
\* variant.
C15_SortNonMutating ==
    [][\A f \in Fields, d \in Orders : SelectSort(f, d) => lessons' = lessons]_vars

\* seq in reverse order.
Reverse(seq) == [k \in 1..Len(seq) |-> seq[Len(seq) + 1 - k]]

\* C16 (SpecSort): for every list and every field of the lesson objects, ties
\* included, switching the direction from asc to desc turns the sorted
\* sequence into its exact reverse, and sorting the sorted sequence again,
\* same field and direction, changes nothing.
C16_SortReversal ==
    /\ [][\A f \in Fields :
            (HasField(f) /\ sortBy = f /\ sortOrder = "asc" /\ SelectSort(f, "desc"))
                => sortedLessons' = Reverse(sortedLessons)]_vars
    /\ [](SortBy(sortedLessons, sortBy, sortOrder) = sortedLessons)

====
